---- MODULE Spec2Model ----
(***************************************************************************)
(* Model of the MicSpeechSentiment sensor                                  *)
(* (src/src/models/mic_speech_sentiment.py).                               *)
(*                                                                         *)
(* The component runs on one asyncio event loop.  Code between two awaits  *)
(* is atomic, so every action below is either a whole synchronous handler  *)
(* (reconfigure, do_command, get_readings) or the stretch of _listen_loop   *)
(* between two suspension points.  A loop task suspends in                 *)
(* speech_service.listen(), in sentiment_service.do_command() and in       *)
(* asyncio.sleep(1); both services are external awaitables, so the moment  *)
(* at which a suspended task is resumed (with a result, a failure or a     *)
(* CancelledError) is not fixed relative to the other handlers.            *)
(***************************************************************************)
EXTENDS Integers, Sequences, FiniteSets, TLC

VARIABLES
    speech_service,             \* self.speech_service ("" is None)
    sentiment_service,          \* self.sentiment_service ("" is None)
    reading_expiration_seconds, \* self.reading_expiration_seconds
    latest_reading,             \* self.latest_reading: <<>> is None, <<r>> a dict
    listening_task,             \* self.listening_task: 0 is None, else a task id
    is_listening,               \* self.is_listening
    tasks,                      \* the asyncio tasks created for _listen_loop
    nTasks,                     \* number of tasks created so far
    now,                        \* datetime.now(), in seconds
    built,                      \* new() has returned the resource to the host
    closePc,                    \* position of close(): idle, awaiting, closed
    ret                         \* the last step: the handler called and what it
                                \* returned, or the event delivered to a loop task

vars == <<speech_service, sentiment_service, reading_expiration_seconds,
          latest_reading, listening_task, is_listening, tasks, nTasks, now,
          built, closePc, ret>>

(***************************************************************************)
(* Bounds                                                                  *)
(***************************************************************************)
MaxTasks == 3
MaxTime == 2

TaskIds == 1..MaxTasks

(***************************************************************************)
(* Program constants and input domains                                     *)
(***************************************************************************)
DefaultExpiration == 20

\* attributes.get("reading_expiration_seconds"): -1 stands for a missing key
ExpirationInputs == {1}

\* the pairs attributes.get("speech_service"), attributes.get("sentiment_service")
\* a config carries: "" stands for a missing key, "gone" names a resource
\* that is not among the dependencies handed to reconfigure
ServiceNames ==
    { <<"", "">>, <<"s1", "">>, <<"", "c2">>, <<"s1", "c1">>, <<"s1", "c2">>,
      <<"gone", "c1">>, <<"s1", "gone">> }

\* the resources `dependencies` holds
Dependencies == {"s1", "c1", "c2"}

\* what speech_service.listen() can return, as sequences of characters
Utterances == { <<>>, <<" ">>, <<"h", "i">>, <<" ", "o", "k">> }

\* what sentiment_service.do_command() can return
Responses == { [sentiment |-> "positive"], [other |-> "x"] }

\* the commands do_command is given that are none of the three it knows;
\* "" is what command.get("command", "") yields when the key is missing
UnknownCommands == {"", "frobnicate"}

(***************************************************************************)
(* Pure helpers                                                            *)
(***************************************************************************)
IsSpace(c) == c = " "

RECURSIVE LStrip(_)
LStrip(s) == IF s # <<>> /\ IsSpace(Head(s)) THEN LStrip(Tail(s)) ELSE s

RECURSIVE RStrip(_)
RStrip(s) ==
    IF s # <<>> /\ IsSpace(s[Len(s)]) THEN RStrip(SubSeq(s, 1, Len(s) - 1))
    ELSE s

\* str.strip()
Strip(s) == RStrip(LStrip(s))

\* mutant of HeardSpeech: every returned text counts as speech
HeardSpeechAlways(text) == TRUE

\* mutant of HeardSpeech: the strip() test left out
HeardSpeechNoStrip(text) == text # <<>>

\* `if text and text.strip()`
HeardSpeech(text) == text # <<>> /\ Strip(text) # <<>>

\* mutant of GetSentiment: a response without the key yields "None"
GetSentimentOrNone(resp) ==
    IF "sentiment" \in DOMAIN resp THEN resp.sentiment ELSE "None"

\* sentiment_result.get("sentiment", "Unknown")
GetSentiment(resp) ==
    IF "sentiment" \in DOMAIN resp THEN resp.sentiment ELSE "Unknown"

\* the dict stored by the loop
MakeReading(text, sentiment, t) ==
    [text_heard |-> text, sentiment |-> sentiment, time |-> t]

\* mutant of Expired: the bound itself counts as expired
ExpiredAtBound(reading, t, window) == t >= reading.time + window

\* `datetime.now() > time_heard + timedelta(seconds=...)`
Expired(reading, t, window) == t > reading.time + window

\* the dict get_readings returns when there is nothing to serve; `cleared`
\* is not part of the dict: it records that the call emptied the slot
DefaultReading(listening, cleared) ==
    [op |-> "get_readings", text_heard |-> <<>>, sentiment |-> "None",
     time |-> now, is_listening |-> listening, cleared |-> cleared]

\* the last step was a clock tick, or nothing has happened yet
NoRet == [op |-> "none"]

\* the last step was one of task t's, resumed by `event`
LoopRet(t, event) == [op |-> "loop", task |-> t, event |-> event]

(***************************************************************************)
(* Loop tasks                                                              *)
(*   pc: unborn   not created                                              *)
(*       new      created by create_task, first step not yet run           *)
(*       listen   suspended in `await self.speech_service.listen()`        *)
(*       classify suspended in `await self.sentiment_service.do_command()` *)
(*       sleep    suspended in `await asyncio.sleep(1)`                    *)
(*       interrupted  Task.cancel() has cancelled the call the task was     *)
(*                suspended in; the CancelledError is still to be raised   *)
(*                at that await.  All three awaits sit in the same         *)
(*                handlers for CancelledError, so which one it was makes   *)
(*                no difference to what follows.                           *)
(*       done     finished                                                 *)
(*   cancel:   Task.cancel() was called and has not been delivered yet     *)
(*   text:     the local `text` of the iteration                           *)
(***************************************************************************)
Unborn == [pc |-> "unborn", cancel |-> FALSE, text |-> <<>>]

NewTask == [Unborn EXCEPT !.pc = "new"]

Finished == [Unborn EXCEPT !.pc = "done"]

Suspended(t) == tasks[t].pc \in {"listen", "classify", "sleep", "interrupted"}

Alive(t) == tasks[t].pc \in {"new", "listen", "classify", "sleep", "interrupted"}

\* a task that can still call listen(), the classifier or write the slot
Active(t) == Alive(t) /\ ~tasks[t].cancel

ActiveTasks == {t \in TaskIds : Active(t)}

\* mutant of CancelTask: cancel() only marks the task and leaves the call it
\* is suspended in running
CancelTaskMarkOnly(ts, t) ==
    IF t = 0 \/ ts[t].pc \in {"unborn", "done"}
    THEN ts
    ELSE [ts EXCEPT ![t].cancel = TRUE]

\* Task.cancel(): no effect on a finished task; a task that has not run yet
\* is marked, a suspended task has its awaited call cancelled
CancelTask(ts, t) ==
    IF t = 0 \/ ts[t].pc \in {"unborn", "done"}
    THEN ts
    ELSE IF ts[t].pc = "new"
         THEN [ts EXCEPT ![t].cancel = TRUE]
         ELSE [ts EXCEPT ![t].cancel = TRUE, ![t].pc = "interrupted",
                         ![t].text = <<>>]

Init ==
    /\ speech_service = ""
    /\ sentiment_service = ""
    /\ reading_expiration_seconds = DefaultExpiration
    /\ latest_reading = <<>>
    /\ listening_task = 0
    /\ is_listening = FALSE
    /\ tasks = [t \in TaskIds |-> Unborn]
    /\ nTasks = 0
    /\ now = 0
    /\ built = FALSE
    /\ closePc = "idle"
    /\ ret = NoRet

(***************************************************************************)
(* start_listening(), shared by reconfigure and do_command                 *)
(***************************************************************************)
StartListening ==
    IF is_listening
    THEN UNCHANGED <<is_listening, listening_task, tasks, nTasks>>
    ELSE /\ is_listening' = TRUE
         /\ nTasks' = nTasks + 1
         /\ listening_task' = nTasks + 1
         /\ tasks' = [tasks EXCEPT ![nTasks + 1] = NewTask]

\* create_task is possible: the model creates at most MaxTasks tasks
CanStart == is_listening \/ nTasks < MaxTasks

\* the host calls the handlers of a resource it holds and has not closed
Serving == built /\ closePc = "idle"

(***************************************************************************)
(* reconfigure(config, dependencies); new() is __init__ then reconfigure.  *)
(* A reconfigure that raises inside new() leaves no resource behind: the   *)
(* next new() starts from __init__ again.  A lookup of a name that is not  *)
(* in `dependencies` raises KeyError; speech_service_api is taken to be    *)
(* importable, so the ImportError of line 105 is not raised.               *)
(***************************************************************************)
Reconfigure(sname, cname, raw) ==
    LET window == IF raw = -1 THEN DefaultExpiration ELSE raw
        sFail  == sname # "" /\ sname \notin Dependencies
        cFail  == cname # "" /\ cname \notin Dependencies
        sp     == IF sname # "" THEN sname ELSE speech_service
        se     == IF cname # "" THEN cname ELSE sentiment_service
        raised == sFail \/ cFail \/ sp = "" \/ se = ""
        \* what the handler was given and whether it raised
        result(r) == [op |-> "reconfigure", raised |-> r,
                      missing |-> (sname = "" \/ cname = ""),
                      unresolved |-> (sFail \/ cFail)]
    IN  /\ closePc = "idle"
        /\ UNCHANGED <<latest_reading, now, closePc>>
        /\ IF raised
           THEN /\ ret' = result(TRUE)
                /\ UNCHANGED <<is_listening, listening_task, tasks, nTasks,
                               built>>
                /\ IF built
                   THEN /\ reading_expiration_seconds' = window
                        /\ speech_service' = IF sFail THEN speech_service ELSE sp
                        /\ sentiment_service' =
                               IF sFail \/ cFail THEN sentiment_service ELSE se
                   ELSE /\ reading_expiration_seconds' = DefaultExpiration
                        /\ speech_service' = ""
                        /\ sentiment_service' = ""
           ELSE /\ CanStart
                /\ ret' = result(FALSE)
                /\ reading_expiration_seconds' = window
                /\ speech_service' = sp
                /\ sentiment_service' = se
                /\ built' = TRUE
                /\ StartListening

(***************************************************************************)
(* do_command                                                              *)
(***************************************************************************)
CmdStartListening ==
    /\ Serving
    /\ CanStart
    /\ StartListening
    /\ ret' = [op |-> "start_listening", status |-> "started"]
    /\ UNCHANGED <<speech_service, sentiment_service,
                   reading_expiration_seconds, latest_reading, now, built,
                   closePc>>

\* mutant of CmdStopListening: the task is cancelled but the flag is left to
\* the loop's own `finally`
CmdStopListeningLazyFlag ==
    /\ Serving
    /\ tasks' = CancelTask(tasks, listening_task)
    /\ ret' = [op |-> "stop_listening", status |-> "stopped"]
    /\ UNCHANGED <<is_listening, speech_service, sentiment_service,
                   reading_expiration_seconds, latest_reading, listening_task,
                   nTasks, now, built, closePc>>

CmdStopListening ==
    /\ Serving
    /\ is_listening' = FALSE
    /\ tasks' = CancelTask(tasks, listening_task)
    /\ ret' = [op |-> "stop_listening", status |-> "stopped"]
    /\ UNCHANGED <<speech_service, sentiment_service,
                   reading_expiration_seconds, latest_reading, listening_task,
                   nTasks, now, built, closePc>>

\* mutant of CmdGetStatus: the status check drops an expired reading
CmdGetStatusClearsExpired ==
    /\ Serving
    /\ ret' = [op |-> "get_status", is_listening |-> is_listening,
               has_reading |-> (latest_reading # <<>>),
               reading_expiration_seconds |-> reading_expiration_seconds]
    /\ latest_reading' =
           IF /\ latest_reading # <<>>
              /\ Expired(latest_reading[1], now, reading_expiration_seconds)
           THEN <<>>
           ELSE latest_reading
    /\ UNCHANGED <<speech_service, sentiment_service,
                   reading_expiration_seconds, listening_task,
                   is_listening, tasks, nTasks, now, built, closePc>>

CmdGetStatus ==
    /\ Serving
    /\ ret' = [op |-> "get_status", is_listening |-> is_listening,
               has_reading |-> (latest_reading # <<>>),
               reading_expiration_seconds |-> reading_expiration_seconds]
    /\ UNCHANGED <<speech_service, sentiment_service,
                   reading_expiration_seconds, latest_reading, listening_task,
                   is_listening, tasks, nTasks, now, built, closePc>>

\* mutant of CmdUnknown: an unrecognised command is taken as a stop request
CmdUnknownStops(cmd) ==
    /\ Serving
    /\ ret' = [op |-> "unknown", error |-> "Unknown command: " \o cmd]
    /\ is_listening' = FALSE
    /\ tasks' = CancelTask(tasks, listening_task)
    /\ UNCHANGED <<speech_service, sentiment_service,
                   reading_expiration_seconds, latest_reading, listening_task,
                   nTasks, now, built, closePc>>

CmdUnknown(cmd) ==
    /\ Serving
    /\ ret' = [op |-> "unknown", error |-> "Unknown command: " \o cmd]
    /\ UNCHANGED <<speech_service, sentiment_service,
                   reading_expiration_seconds, latest_reading, listening_task,
                   is_listening, tasks, nTasks, now, built, closePc>>

(***************************************************************************)
(* get_readings                                                            *)
(***************************************************************************)
\* mutant of GetReadings: a served reading is stamped with the time of the
\* read, in the slot and in the result
GetReadingsRefresh ==
    /\ Serving
    /\ IF latest_reading = <<>>
       THEN /\ ret' = DefaultReading(is_listening, FALSE)
            /\ UNCHANGED latest_reading
       ELSE IF Expired(latest_reading[1], now, reading_expiration_seconds)
            THEN /\ latest_reading' = <<>>
                 /\ ret' = DefaultReading(is_listening, TRUE)
            ELSE /\ ret' = [op |-> "get_readings",
                            text_heard |-> latest_reading[1].text_heard,
                            sentiment |-> latest_reading[1].sentiment,
                            time |-> now,
                            is_listening |-> is_listening,
                            cleared |-> FALSE]
                 /\ latest_reading' =
                        <<[latest_reading[1] EXCEPT !.time = now]>>
    /\ UNCHANGED <<speech_service, sentiment_service,
                   reading_expiration_seconds, listening_task, is_listening,
                   tasks, nTasks, now, built, closePc>>

\* mutant of GetReadings: the result carries the time of the read next to the
\* stored text and sentiment
GetReadingsStampsNow ==
    /\ Serving
    /\ IF latest_reading = <<>>
       THEN /\ ret' = DefaultReading(is_listening, FALSE)
            /\ UNCHANGED latest_reading
       ELSE IF Expired(latest_reading[1], now, reading_expiration_seconds)
            THEN /\ latest_reading' = <<>>
                 /\ ret' = DefaultReading(is_listening, TRUE)
            ELSE /\ ret' = [op |-> "get_readings",
                            text_heard |-> latest_reading[1].text_heard,
                            sentiment |-> latest_reading[1].sentiment,
                            time |-> now,
                            is_listening |-> is_listening,
                            cleared |-> FALSE]
                 /\ UNCHANGED latest_reading
    /\ UNCHANGED <<speech_service, sentiment_service,
                   reading_expiration_seconds, listening_task, is_listening,
                   tasks, nTasks, now, built, closePc>>

GetReadings ==
    /\ Serving
    /\ IF latest_reading = <<>>
       THEN /\ ret' = DefaultReading(is_listening, FALSE)
            /\ UNCHANGED latest_reading
       ELSE IF Expired(latest_reading[1], now, reading_expiration_seconds)
            THEN /\ latest_reading' = <<>>
                 /\ ret' = DefaultReading(is_listening, TRUE)
            ELSE /\ ret' = [op |-> "get_readings",
                            text_heard |-> latest_reading[1].text_heard,
                            sentiment |-> latest_reading[1].sentiment,
                            time |-> latest_reading[1].time,
                            is_listening |-> is_listening,
                            cleared |-> FALSE]
                 /\ UNCHANGED latest_reading
    /\ UNCHANGED <<speech_service, sentiment_service,
                   reading_expiration_seconds, listening_task, is_listening,
                   tasks, nTasks, now, built, closePc>>

(***************************************************************************)
(* close(): cancels listening_task and awaits it.  It is the host's last   *)
(* call on the resource.                                                   *)
(***************************************************************************)
CloseBegin ==
    /\ Serving
    /\ is_listening' = FALSE
    /\ tasks' = CancelTask(tasks, listening_task)
    /\ closePc' = IF listening_task # 0 /\ tasks[listening_task].pc # "done"
                  THEN "awaiting" ELSE "closed"
    /\ ret' = [op |-> "close"]
    /\ UNCHANGED <<speech_service, sentiment_service,
                   reading_expiration_seconds, latest_reading, listening_task,
                   nTasks, now, built>>

\* `await self.listening_task` resumes once that task has finished
CloseReturn ==
    /\ closePc = "awaiting"
    /\ tasks[listening_task].pc = "done"
    /\ closePc' = "closed"
    /\ ret' = [op |-> "close"]
    /\ UNCHANGED <<speech_service, sentiment_service,
                   reading_expiration_seconds, latest_reading, listening_task,
                   is_listening, tasks, nTasks, now, built>>

(***************************************************************************)
(* _listen_loop, one action per stretch between two suspension points      *)
(***************************************************************************)
\* what a loop step leaves alone
LoopFrame ==
    UNCHANGED <<speech_service, sentiment_service,
               reading_expiration_seconds, listening_task, nTasks, now,
               built, closePc>>

\* `while self.is_listening:` then either the next listen() call or the
\* `finally` clause
LoopHead(t) ==
    IF is_listening
    THEN /\ tasks' = [tasks EXCEPT ![t].pc = "listen", ![t].text = <<>>]
         /\ UNCHANGED is_listening
    ELSE /\ tasks' = [tasks EXCEPT ![t] = Finished]
         /\ is_listening' = FALSE

\* first step of the task
TaskStart(t) ==
    /\ tasks[t].pc = "new"
    /\ ~tasks[t].cancel
    /\ LoopHead(t)
    /\ UNCHANGED latest_reading
    /\ ret' = LoopRet(t, "started")
    /\ LoopFrame

\* a task cancelled before its first step never enters the coroutine body,
\* so its `finally` does not run
CancelUnstarted(t) ==
    /\ tasks[t].pc = "new"
    /\ tasks[t].cancel
    /\ tasks' = [tasks EXCEPT ![t] = Finished]
    /\ UNCHANGED <<is_listening, latest_reading>>
    /\ ret' = LoopRet(t, "cancelled")
    /\ LoopFrame

\* listen() returns `text`
ListenReturn(t, text) ==
    /\ tasks[t].pc = "listen"
    /\ ~tasks[t].cancel
    /\ IF HeardSpeech(text)
       THEN /\ tasks' = [tasks EXCEPT ![t].pc = "classify", ![t].text = text]
            /\ UNCHANGED is_listening
       ELSE LoopHead(t)
    /\ UNCHANGED latest_reading
    /\ ret' = [op |-> "loop", task |-> t, event |-> "listen_returned",
               text |-> text]
    /\ LoopFrame

\* mutant of ListenFail: the failure ends the loop
ListenFailStops(t) ==
    /\ tasks[t].pc = "listen"
    /\ ~tasks[t].cancel
    /\ tasks' = [tasks EXCEPT ![t] = Finished]
    /\ is_listening' = FALSE
    /\ UNCHANGED latest_reading
    /\ ret' = LoopRet(t, "listen_failed")
    /\ LoopFrame

\* listen() raises: caught by `except Exception`, then asyncio.sleep(1)
ListenFail(t) ==
    /\ tasks[t].pc = "listen"
    /\ ~tasks[t].cancel
    /\ tasks' = [tasks EXCEPT ![t].pc = "sleep", ![t].text = <<>>]
    /\ UNCHANGED <<is_listening, latest_reading>>
    /\ ret' = LoopRet(t, "listen_failed")
    /\ LoopFrame

\* mutant of ClassifyReturn: a stored reading is not overwritten
ClassifyReturnKeepFirst(t, resp) ==
    /\ tasks[t].pc = "classify"
    /\ ~tasks[t].cancel
    /\ latest_reading' =
           IF latest_reading = <<>>
           THEN <<MakeReading(tasks[t].text, GetSentiment(resp), now)>>
           ELSE latest_reading
    /\ LoopHead(t)
    /\ ret' = [op |-> "loop", task |-> t, event |-> "classify_returned",
               resp |-> resp]
    /\ LoopFrame

\* the classifier returns `resp`: the reading is stored
ClassifyReturn(t, resp) ==
    /\ tasks[t].pc = "classify"
    /\ ~tasks[t].cancel
    /\ latest_reading' = <<MakeReading(tasks[t].text, GetSentiment(resp), now)>>
    /\ LoopHead(t)
    /\ ret' = [op |-> "loop", task |-> t, event |-> "classify_returned",
               resp |-> resp]
    /\ LoopFrame

\* the classifier raises: caught by `except Exception`, then asyncio.sleep(1)
ClassifyFail(t) ==
    /\ tasks[t].pc = "classify"
    /\ ~tasks[t].cancel
    /\ tasks' = [tasks EXCEPT ![t].pc = "sleep", ![t].text = <<>>]
    /\ UNCHANGED <<is_listening, latest_reading>>
    /\ ret' = LoopRet(t, "classify_failed")
    /\ LoopFrame

\* mutant of FatalFault: the loop ends without its `finally`
FatalFaultKeepsFlag(t) ==
    /\ tasks[t].pc \in {"listen", "classify"}
    /\ ~tasks[t].cancel
    /\ tasks' = [tasks EXCEPT ![t] = Finished]
    /\ UNCHANGED <<is_listening, latest_reading>>
    /\ ret' = LoopRet(t, "fatal")
    /\ LoopFrame

\* the awaited call raises and the handler of line 163 raises in turn (its
\* logging call fails): the fault leaves the inner try, the outer `except
\* Exception` logs it as fatal and `finally` clears the flag
FatalFault(t) ==
    /\ tasks[t].pc \in {"listen", "classify"}
    /\ ~tasks[t].cancel
    /\ tasks' = [tasks EXCEPT ![t] = Finished]
    /\ is_listening' = FALSE
    /\ UNCHANGED latest_reading
    /\ ret' = LoopRet(t, "fatal")
    /\ LoopFrame

\* asyncio.sleep(1) returns
SleepDone(t) ==
    /\ tasks[t].pc = "sleep"
    /\ ~tasks[t].cancel
    /\ LoopHead(t)
    /\ UNCHANGED latest_reading
    /\ ret' = LoopRet(t, "sleep_done")
    /\ LoopFrame

\* CancelledError is delivered at the suspension point: `except
\* asyncio.CancelledError`, then `finally`
ObserveCancel(t) ==
    /\ tasks[t].pc = "interrupted"
    /\ tasks[t].cancel
    /\ tasks' = [tasks EXCEPT ![t] = Finished]
    /\ is_listening' = FALSE
    /\ UNCHANGED latest_reading
    /\ ret' = LoopRet(t, "cancelled")
    /\ LoopFrame

\* the clock advances
Tick ==
    /\ now < MaxTime
    /\ now' = now + 1
    /\ ret' = NoRet
    /\ UNCHANGED <<speech_service, sentiment_service,
                   reading_expiration_seconds, latest_reading, listening_task,
                   is_listening, tasks, nTasks, built, closePc>>

Next ==
    \/ \E names \in ServiceNames, raw \in ExpirationInputs :
          Reconfigure(names[1], names[2], raw)
    \/ CmdStartListening
    \/ CmdStopListening
    \/ CmdGetStatus
    \/ \E cmd \in UnknownCommands : CmdUnknown(cmd)
    \/ GetReadings
    \/ CloseBegin
    \/ CloseReturn
    \/ \E t \in TaskIds : TaskStart(t)
    \/ \E t \in TaskIds : CancelUnstarted(t)
    \/ \E t \in TaskIds, text \in Utterances : ListenReturn(t, text)
    \/ \E t \in TaskIds : ListenFail(t)
    \/ \E t \in TaskIds, resp \in Responses : ClassifyReturn(t, resp)
    \/ \E t \in TaskIds : ClassifyFail(t)
    \/ \E t \in TaskIds : FatalFault(t)
    \/ \E t \in TaskIds : SleepDone(t)
    \/ \E t \in TaskIds : ObserveCancel(t)
    \/ Tick

Spec == Init /\ [][Next]_vars

TypeOK ==
    /\ is_listening \in BOOLEAN
    /\ listening_task \in 0..MaxTasks
    /\ nTasks \in 0..MaxTasks
    /\ now \in 0..MaxTime
    /\ Len(latest_reading) <= 1

(***************************************************************************)
(* Properties                                                              *)
(***************************************************************************)
\* whitespace-only or empty, character by character
IsBlank(text) == \A i \in 1..Len(text) : text[i] = " "

\* the task whose step the last step was
Stepped == ret.task

\* C1 (expiry): a get_readings issued no later than time + window of the
\* stored reading returns that reading's text_heard and sentiment and leaves
\* the slot alone; issued later, or with an empty slot, it returns the default
\* reading ("" / "None") and leaves the slot empty; a get_status issued right
\* after a get_readings that returned the default reports has_reading = FALSE.
Expiry_C1 ==
    [][ /\ ret'.op = "get_readings" =>
             IF /\ latest_reading # <<>>
                /\ now <= latest_reading[1].time + reading_expiration_seconds
             THEN /\ ret'.text_heard = latest_reading[1].text_heard
                  /\ ret'.sentiment = latest_reading[1].sentiment
                  /\ latest_reading' = latest_reading
             ELSE /\ ret'.text_heard = <<>>
                  /\ ret'.sentiment = "None"
                  /\ latest_reading' = <<>>
        /\ (ret.op = "get_readings" /\ ret.sentiment = "None"
              /\ ret'.op = "get_status") => ret'.has_reading = FALSE
      ]_vars

\* C1 witness: a get_readings found the stored reading past its window,
\* returned the default and emptied the slot
Expiry_C1_Witness ==
    /\ ret.op = "get_readings"
    /\ ret.cleared
    /\ ret.text_heard = <<>>
    /\ latest_reading = <<>>

\* C2 (single writer): at most one loop task is active (alive and with no
\* cancellation pending) in every reachable state.
SingleWriter_C2 == Cardinality(ActiveTasks) <= 1

\* C3 (idempotent start): whenever start_listening has just returned, the
\* second of two successive calls included, exactly one loop task is active
\* and it is listening_task.
IdempotentStart_C3 ==
    ret.op = "start_listening" => ActiveTasks = {listening_task}

\* C4 (fault isolation): a failure of listen() or of the classifier leaves the
\* task in its pause with is_listening and latest_reading as they were; when
\* the pause ends with is_listening still true the task calls listen() again;
\* and a classifier response that arrives stores the reading of that
\* iteration, stamped with the current time.
FaultIsolation_C4 ==
    [][ /\ (ret'.op = "loop"
              /\ ret'.event \in {"listen_failed", "classify_failed"}) =>
             /\ tasks'[ret'.task].pc = "sleep"
             /\ is_listening' = is_listening
             /\ latest_reading' = latest_reading
        /\ (ret'.op = "loop" /\ ret'.event = "sleep_done" /\ is_listening) =>
             /\ tasks'[ret'.task].pc = "listen"
             /\ is_listening'
        /\ (ret'.op = "loop" /\ ret'.event = "classify_returned") =>
             /\ latest_reading' # <<>>
             /\ latest_reading'[1].text_heard = tasks[ret'.task].text
             /\ latest_reading'[1].time = now
      ]_vars

\* C4 witness: after a failed iteration and its pause a task listens again
\* while the component is still listening
FaultIsolation_C4_Witness ==
    /\ ret.op = "loop"
    /\ ret.event = "sleep_done"
    /\ tasks[Stepped].pc = "listen"
    /\ is_listening

\* C5 (empty utterance skip): when listen() returns an empty or
\* whitespace-only text the task does not call the classifier, latest_reading
\* (its time included) is unchanged, and with is_listening true the task
\* calls listen() again.
EmptySkip_C5 ==
    [][ (ret'.op = "loop" /\ ret'.event = "listen_returned"
           /\ IsBlank(ret'.text)) =>
             /\ latest_reading' = latest_reading
             /\ tasks'[ret'.task].pc # "classify"
             /\ is_listening => tasks'[ret'.task].pc = "listen"
      ]_vars

\* C5 witness: a whitespace-only utterance was skipped while a reading was
\* stored
EmptySkip_C5_Witness ==
    /\ ret.op = "loop"
    /\ ret.event = "listen_returned"
    /\ ret.text = <<" ">>
    /\ tasks[Stepped].pc = "listen"
    /\ latest_reading # <<>>

\* C6 (clean stop): stop_listening returns {status: "stopped"} with
\* is_listening false and without waiting for any loop task to exit (a task
\* alive before the call is still alive after it), and a get_status or
\* get_readings issued next reports is_listening = FALSE.
CleanStop_C6 ==
    [][ /\ ret'.op = "stop_listening" =>
             /\ ~is_listening'
             /\ ret'.status = "stopped"
             /\ \A t \in TaskIds : Alive(t) => Alive(t)'
        /\ (ret.op = "stop_listening"
              /\ ret'.op \in {"get_status", "get_readings"}) =>
             ret'.is_listening = FALSE
      ]_vars

\* C6 witness: a status check right after a stop reports is_listening false
\* while the cancelled loop task has not yet exited
CleanStop_C6_Witness ==
    /\ ret.op = "get_status"
    /\ ret.is_listening = FALSE
    /\ listening_task # 0
    /\ Suspended(listening_task)
    /\ tasks[listening_task].cancel

\* C7 (restart after stop): once is_listening is true it stays true until
\* the next stop_listening or close.
RestartAfterStop_C7 ==
    [][ (is_listening /\ ~is_listening') =>
            ret'.op \in {"stop_listening", "close"} ]_vars

\* C8 (shutdown): once close() has returned no loop task can still run an
\* iteration, is_listening is false and latest_reading is not written any
\* more.
Shutdown_C8 ==
    [][ closePc' = "closed" =>
          /\ ActiveTasks' = {}
          /\ ~is_listening'
          /\ closePc = "closed" => latest_reading' = latest_reading
      ]_vars

\* C9 (reconfiguration): a reconfigure that changes a service binding while a
\* loop task is active cancels that task and starts a fresh one.
Reconfiguration_C9 ==
    [][ (ret'.op = "reconfigure"
           /\ (speech_service' # speech_service
                 \/ sentiment_service' # sentiment_service)
           /\ ActiveTasks # {}) =>
             /\ \A t \in ActiveTasks : tasks'[t].cancel
             /\ nTasks' = nTasks + 1
      ]_vars

\* C10 (unknown command): do_command with an unrecognised command returns
\* {error: "Unknown command: <cmd>"} and leaves is_listening, listening_task,
\* latest_reading, reading_expiration_seconds and the loop tasks unchanged.
UnknownCommand_C10 ==
    [][ ret'.op = "unknown" =>
          /\ ret'.error \in {"Unknown command: frobnicate", "Unknown command: "}
          /\ UNCHANGED <<is_listening, listening_task, latest_reading,
                         reading_expiration_seconds, tasks>>
      ]_vars

\* C10 witness: an unknown command was answered while the loop was running
\* and a reading was stored
UnknownCommand_C10_Witness ==
    /\ ret.op = "unknown"
    /\ ret.error = "Unknown command: frobnicate"
    /\ is_listening
    /\ latest_reading # <<>>

\* C11 (last write wins): a non-blank text returned by listen() is the text
\* the task carries into the classifier call and keeps while it waits there;
\* a classifier response with a sentiment stores exactly that text, that
\* sentiment and the current time; nothing but such a write or an expiring
\* get_readings changes latest_reading; and a get_readings issued within the
\* window returns the stored text and sentiment, so it returns the pair of the
\* most recent write.
LastWriteWins_C11 ==
    [][ /\ (ret'.op = "loop" /\ ret'.event = "listen_returned"
              /\ ~IsBlank(ret'.text)) =>
             /\ tasks'[ret'.task].pc = "classify"
             /\ tasks'[ret'.task].text = ret'.text
        /\ \A t \in TaskIds :
             (tasks[t].pc = "classify" /\ tasks'[t].pc = "classify") =>
                 tasks'[t].text = tasks[t].text
        /\ (ret'.op = "loop" /\ ret'.event = "classify_returned"
              /\ "sentiment" \in DOMAIN ret'.resp) =>
             latest_reading' =
                 <<MakeReading(tasks[ret'.task].text, ret'.resp.sentiment, now)>>
        /\ latest_reading' # latest_reading =>
             \/ ret'.op = "loop" /\ ret'.event = "classify_returned"
             \/ ret'.op = "get_readings" /\ latest_reading' = <<>>
        /\ (/\ ret'.op = "get_readings"
            /\ latest_reading # <<>>
            /\ now <= latest_reading[1].time + reading_expiration_seconds) =>
             /\ ret'.text_heard = latest_reading[1].text_heard
             /\ ret'.sentiment = latest_reading[1].sentiment
      ]_vars

\* C11 witness: a read returned the text and sentiment of the reading stored
\* at an earlier clock value, still within its window
LastWriteWins_C11_Witness ==
    /\ ret.op = "get_readings"
    /\ ret.text_heard = <<"h", "i">>
    /\ ret.sentiment = "positive"
    /\ latest_reading = <<MakeReading(<<"h", "i">>, "positive", ret.time)>>
    /\ ret.time < now

\* C12 (configuration error): a reconfigure whose config lacks one of the two
\* service names, or names a resource that cannot be resolved, raises and
\* neither spawns a loop task nor changes is_listening.
ConfigurationError_C12 ==
    [][ (ret'.op = "reconfigure" /\ (ret'.missing \/ ret'.unresolved)) =>
          /\ ret'.raised
          /\ nTasks' = nTasks
          /\ is_listening' = is_listening
      ]_vars

\* C13 (status snapshot): get_status returns the current is_listening, whether
\* latest_reading is present and reading_expiration_seconds, and changes
\* nothing: the slot keeps even an expired reading and no loop task is
\* created or cancelled.
StatusSnapshot_C13 ==
    [][ ret'.op = "get_status" =>
          /\ ret'.is_listening = is_listening
          /\ ret'.has_reading = (latest_reading # <<>>)
          /\ ret'.reading_expiration_seconds = reading_expiration_seconds
          /\ UNCHANGED <<speech_service, sentiment_service,
                         reading_expiration_seconds, latest_reading,
                         listening_task, is_listening, tasks, nTasks, now,
                         built, closePc>>
      ]_vars

\* C13 witness: a status check reported has_reading for a reading that is
\* past its window and left it in the slot
StatusSnapshot_C13_Witness ==
    /\ ret.op = "get_status"
    /\ ret.has_reading
    /\ latest_reading # <<>>
    /\ Expired(latest_reading[1], now, reading_expiration_seconds)
    /\ is_listening

\* C14 (cancellation without a late write): a stop_listening or close issued
\* while listening_task is suspended in listen(), in the classifier call or in
\* the pause interrupts the task at that await; an interrupted task makes no
\* classifier call and no write to latest_reading, and the only step it still
\* takes is the exit on its CancelledError, which is not a fault exit.
CancelNoLateWrite_C14 ==
    [][ /\ (/\ ret'.op \in {"stop_listening", "close"}
            /\ closePc = "idle"
            /\ listening_task # 0
            /\ tasks[listening_task].pc \in {"listen", "classify", "sleep"}) =>
             /\ tasks'[listening_task].pc = "interrupted"
             /\ tasks'[listening_task].cancel
        /\ \A t \in TaskIds :
             tasks[t].pc = "interrupted" =>
                 /\ tasks'[t].pc \in {"interrupted", "done"}
                 /\ tasks'[t].pc = "done" =>
                        /\ ret'.op = "loop"
                        /\ ret'.task = t
                        /\ ret'.event = "cancelled"
                 /\ (ret'.op = "loop" /\ ret'.task = t) =>
                        latest_reading' = latest_reading
      ]_vars

\* C14 witness: close() has interrupted the suspended loop task and waits for
\* it while a reading is stored
CancelNoLateWrite_C14_Witness ==
    /\ ret.op = "close"
    /\ closePc = "awaiting"
    /\ tasks[listening_task].pc = "interrupted"
    /\ latest_reading # <<>>

\* C15 (flag cleared on exit): whenever a loop task that has begun executing
\* terminates (on its CancelledError, on a fault that leaves the per-iteration
\* guard, or on finding the flag false at the loop condition) is_listening is
\* false right after that step; and a start_listening issued while the flag is
\* false, after a fault exit included, spawns a new loop task and sets the
\* flag.
FlagClearedOnExit_C15 ==
    [][ /\ \A t \in TaskIds :
             (/\ Alive(t)
              /\ ~(tasks[t].pc = "new" /\ tasks[t].cancel)
              /\ tasks'[t].pc = "done") => ~is_listening'
        /\ (ret'.op = "start_listening" /\ ~is_listening) =>
             /\ is_listening'
             /\ nTasks' = nTasks + 1
             /\ listening_task' = nTasks'
             /\ tasks'[nTasks'] = NewTask
      ]_vars

\* C15 witness: the current loop task has ended on a fault that left the
\* per-iteration guard, the flag is false and the component still serves
\* commands
FlagClearedOnExit_C15_Witness ==
    /\ ret.op = "loop"
    /\ ret.event = "fatal"
    /\ Stepped = listening_task
    /\ tasks[Stepped].pc = "done"
    /\ ~is_listening
    /\ Serving

\* C16 (atomic slot): a write replaces latest_reading by one record made of
\* the iteration's text, the response's sentiment and the current time; a
\* get_readings that returns a stored reading returns the three fields of the
\* one record in the slot; and a get_readings that follows a write returns
\* that write.
AtomicSlot_C16 ==
    [][ /\ (ret'.op = "loop" /\ ret'.event = "classify_returned") =>
             latest_reading' =
                 <<MakeReading(tasks[ret'.task].text,
                               GetSentiment(ret'.resp), now)>>
        /\ (ret'.op = "get_readings" /\ ret'.sentiment # "None") =>
             latest_reading =
                 <<MakeReading(ret'.text_heard, ret'.sentiment, ret'.time)>>
        /\ (ret.op = "loop" /\ ret.event = "classify_returned"
              /\ ret'.op = "get_readings") =>
             /\ ret'.text_heard = latest_reading[1].text_heard
             /\ ret'.sentiment = GetSentiment(ret.resp)
             /\ ret'.time = now
      ]_vars

\* C16 witness: a read issued after the clock moved on returned the text,
\* sentiment and time of the one stored record while the loop was running
AtomicSlot_C16_Witness ==
    /\ ret.op = "get_readings"
    /\ ret.text_heard = <<" ", "o", "k">>
    /\ ret.sentiment = "Unknown"
    /\ latest_reading = <<MakeReading(ret.text_heard, ret.sentiment, ret.time)>>
    /\ ret.time + 1 = now
    /\ is_listening

\* C17 (reads do not refresh): a get_readings that finds a reading no older
\* than its window leaves latest_reading, its time included, unchanged and
\* returns the stored time; a get_readings issued later than the stored time
\* plus reading_expiration_seconds returns the default, so every reading that
\* is served is within its window counted from the time of its write.
ReadsDoNotRefresh_C17 ==
    [][ ret'.op = "get_readings" =>
          /\ (/\ latest_reading # <<>>
              /\ now <= latest_reading[1].time + reading_expiration_seconds) =>
                 /\ latest_reading' = latest_reading
                 /\ ret'.time = latest_reading[1].time
          /\ (/\ latest_reading # <<>>
              /\ now > latest_reading[1].time + reading_expiration_seconds) =>
                 ret'.sentiment = "None"
          /\ ret'.sentiment # "None" =>
                 /\ latest_reading' # <<>>
                 /\ now <= latest_reading'[1].time + reading_expiration_seconds
      ]_vars

\* C17 witness: a read issued exactly at the end of the window was served and
\* the stored time is still the time of the write
ReadsDoNotRefresh_C17_Witness ==
    /\ ret.op = "get_readings"
    /\ ~ret.cleared
    /\ latest_reading # <<>>
    /\ latest_reading[1].time = ret.time
    /\ now = ret.time + reading_expiration_seconds
    /\ now > ret.time

\* C18 (missing sentiment field): a classifier response without the
\* "sentiment" key to a non-blank text stores a reading with that text and
\* sentiment "Unknown"; the task does not take the pause and, with
\* is_listening true, calls listen() again.
MissingSentiment_C18 ==
    [][ (ret'.op = "loop" /\ ret'.event = "classify_returned"
           /\ "sentiment" \notin DOMAIN ret'.resp) =>
             /\ ~IsBlank(tasks[ret'.task].text)
             /\ latest_reading' =
                    <<MakeReading(tasks[ret'.task].text, "Unknown", now)>>
             /\ tasks'[ret'.task].pc # "sleep"
             /\ is_listening =>
                    /\ tasks'[ret'.task].pc = "listen"
                    /\ is_listening'
      ]_vars

\* C18 witness: a response without the key was stored as "Unknown" and the
\* task is back in listen()
MissingSentiment_C18_Witness ==
    /\ ret.op = "loop"
    /\ ret.event = "classify_returned"
    /\ "sentiment" \notin DOMAIN ret.resp
    /\ latest_reading # <<>>
    /\ latest_reading[1].sentiment = "Unknown"
    /\ tasks[Stepped].pc = "listen"

\* C19 (stored text is never blank): latest_reading is empty or holds exactly
\* one reading whose text_heard is neither empty nor whitespace-only, and a
\* get_readings result with text_heard = "" has sentiment "None".
StoredTextNeverBlank_C19 ==
    /\ Len(latest_reading) <= 1
    /\ latest_reading # <<>> => ~IsBlank(latest_reading[1].text_heard)
    /\ (ret.op = "get_readings" /\ ret.text_heard = <<>>) =>
           ret.sentiment = "None"

\* C19 witness: a text with leading whitespace was heard and is stored as it
\* was returned
StoredTextNeverBlank_C19_Witness ==
    /\ ret.op = "loop"
    /\ ret.event = "classify_returned"
    /\ latest_reading # <<>>
    /\ latest_reading[1].text_heard = <<" ", "o", "k">>

\* C20 (flag agrees with loop liveness): in every reachable state
\* is_listening true implies that listening_task exists and has not
\* terminated, and is_listening false implies that no loop task is in an
\* iteration that can still reach the write (uncancelled in listen() or in
\* the classifier call).
FlagMatchesLoop_C20 ==
    /\ is_listening => (listening_task # 0 /\ Alive(listening_task))
    /\ ~is_listening =>
           \A t \in TaskIds :
               ~(tasks[t].pc \in {"listen", "classify"} /\ ~tasks[t].cancel)

====
